---- MODULE Spec2Model ----
(***************************************************************************)
(* Lead management: the lead form (LeadForm.tsx), the dashboard            *)
(* (Dashboard, src/unnamed/part_000), the leads list (LeadsList,           *)
(* src/unnamed/part_001) and the storage backend they talk to (the leads,  *)
(* lead_products, lead_services, products and services tables of the       *)
(* migrations, with their row level security policies).                    *)
(*                                                                         *)
(* Amounts are whole rupees.  A text value is a TLA+ string, except the    *)
(* three searchable columns full_name, email and company, which are        *)
(* sequences of one-character strings so that toLowerCase and includes can *)
(* be computed.  A nullable column holds Null or Some(v).  The columns     *)
(* phone, notes, location_url, pincode, created_at and updated_at are      *)
(* free text or timestamps no operation below reads; they are left out of  *)
(* the rows.                                                               *)
(***************************************************************************)
EXTENDS Integers, Sequences, FiniteSets, Bags, TLC

VARIABLES
    user,               \* useAuth().user: the authenticated user, or NoUser
    db_leads,           \* table leads: a set of rows
    db_lead_products,   \* table lead_products: a set of [lead_id, product_id]
    db_lead_services,   \* table lead_services: a set of [lead_id, service_id]
    nextId,             \* the next id gen_random_uuid() hands out
    leads,              \* Dashboard: useState<Lead[]>
    loading,            \* Dashboard: loading flag
    stats,              \* Dashboard: statistics
    showForm,           \* Dashboard: the new-lead form is mounted
    searchTerm,         \* Dashboard: free-text filter
    filterStatus,       \* Dashboard: status filter ("" = all)
    filterLeadType,     \* Dashboard: lead_type filter ("" = all)
    filterModelType,    \* Dashboard: model_type filter ("" = all)
    editingLead,        \* LeadsList: Null, or Some(lead) handed to the edit form
    formData,           \* LeadForm: the form fields
    selectedProducts,   \* LeadForm: selected product ids, a list
    selectedServices,   \* LeadForm: selected service ids, a list
    products,           \* LeadForm: fetched catalog snapshot of products
    services,           \* LeadForm: fetched catalog snapshot of services
    formLoading,        \* LeadForm: loading flag
    fetchReqs,          \* lead fetches sent and not yet answered by the backend
    fetchResps,         \* a bag of lead-fetch responses on their way to the dashboard
    submitting,         \* LeadForm: Null, or Some(what a running handleSubmit captured)
    peer,               \* a second session of the user: Null, or Some(its edit form)
    last                \* what the step just taken reported, if it ended an operation

vars == << user, db_leads, db_lead_products, db_lead_services, nextId,
           leads, loading, stats, showForm, searchTerm, filterStatus,
           filterLeadType, filterModelType, editingLead,
           formData, selectedProducts, selectedServices, products, services,
           formLoading, fetchReqs, fetchResps, submitting, peer, last >>

dbVars   == << db_leads, db_lead_products, db_lead_services, nextId >>
dashVars == << leads, loading, stats, showForm, searchTerm, filterStatus,
               filterLeadType, filterModelType, editingLead >>
filterVars == << searchTerm, filterStatus, filterLeadType, filterModelType >>
formVars == << formData, selectedProducts, selectedServices, products, services,
               formLoading, submitting >>
fetchVars == << fetchReqs, fetchResps >>

----------------------------------------------------------------------------
(* Bounds of the model *)

MaxLeads    == 1    \* leads created through the form
MaxStored   == 2    \* leads already stored when a run starts
MaxInflight == 2    \* lead fetches in flight at once
MaxSelLen   == 2    \* length of a selection list drawn as an input
MaxCatLen   == 2    \* length of a catalog snapshot drawn as an input

(* Program constants *)

MinScore   == 0            \* CHECK (lead_score >= 0 ...), input min="0"
MaxScore   == 100          \* CHECK (... lead_score <= 100), input max="100"
NumericMax == 99999999     \* decimal(10,2): at most 8 digits before the point

----------------------------------------------------------------------------
(* Values *)

Null    == << >>
Some(v) == << v >>

NoUser == "none"
Users  == {"A", "B"}


LeadTypes  == {"Individual", "Business", "Housing-Society", "Agent"}
ModelTypes == {"Purchase", "Rent", "Individual Home-kit"}
Statuses   == {"New", "In-Progress", "Closed"}

ProductIds == {"p1", "p2"}
ServiceIds == {"s1"}

\* Rows of the products and services tables: seed rows of the migration, one
\* of them since deactivated (is_active = false).
ProductsTable ==
    << [id |-> "p1", name |-> "Compost Bin - Large", price |-> 2500, is_active |-> TRUE],
       [id |-> "p2", name |-> "Compost Bin - Small", price |-> 1200, is_active |-> TRUE],
       [id |-> "p3", name |-> "Organic Soil Mix",    price |-> 500,  is_active |-> FALSE] >>

ServicesTable ==
    << [id |-> "s1", name |-> "Installation Service", price |-> 2000, is_active |-> TRUE] >>

\* .eq('is_active', true).order('name'): the tables above are in name order,
\* so the active rows in table order are the answer.
AllRows(table) == table

ActiveRows(table) == SelectSeq(table, LAMBDA r : r.is_active)

----------------------------------------------------------------------------
(* Sequence helpers *)

Range(s) == { s[i] : i \in 1..Len(s) }

\* Array.prototype.find(x => x.id === id): the first row of that id, or Null.
Find(rows, id) ==
    LET hits == { i \in 1..Len(rows) : rows[i].id = id }
    IN  IF hits = {} THEN Null
        ELSE Some(rows[CHOOSE i \in hits : \A j \in hits : i <= j])

----------------------------------------------------------------------------
(* LeadForm: the amount calculator *)

\* product?.price || 0
PriceOrZero(found) == IF found = Null THEN 0 ELSE found[1].price

\* selected.reduce((sum, id) => sum + (rows.find(...)?.price || 0), acc)
RECURSIVE ReduceSum(_, _, _)
ReduceSum(selected, rows, acc) ==
    IF selected = << >> THEN acc
    ELSE ReduceSum(Tail(selected), rows, acc + PriceOrZero(Find(rows, Head(selected))))

productTotal(selP, prods) == ReduceSum(selP, prods, 0)

serviceTotal(selS, servs) == ReduceSum(selS, servs, 0)

\* A calculator that forgets the services.
AmountProductsOnly(selP, selS, prods, servs) ==
    productTotal(selP, prods)

\* calculatedAmount as a function of its four dependencies.
Amount(selP, selS, prods, servs) ==
    productTotal(selP, prods) + serviceTotal(selS, servs)

calculatedAmount == Amount(selectedProducts, selectedServices, products, services)

----------------------------------------------------------------------------
(* The storage backend: table leads *)

\* useState({...}) of LeadForm: the fields of an empty form.
InitialFormData ==
    [ full_name        |-> << >>,
      email            |-> << >>,
      company          |-> << >>,
      address          |-> "",
      lead_type        |-> "Individual",
      model_type       |-> "Purchase",
      lead_score       |-> 0,
      status           |-> "New",
      potential_amount |-> 0,
      follow_up        |-> FALSE,
      follow_up_date   |-> "",
      follow_up_notes  |-> "",
      lead_sealed      |-> FALSE ]

\* Column follow_up_date is of type date: the text '' is no date and the
\* statement carrying it is rejected (invalid input syntax for type date).
DateInputOk(text) == text # ""

\* The row a payload { ...formData, user_id } becomes: every key of formData is
\* a column, text goes into the nullable columns as a (non-null) value.
RowOf(fd, id, uid) ==
    [ id               |-> id,
      user_id          |-> uid,
      full_name        |-> fd.full_name,
      email            |-> fd.email,
      company          |-> fd.company,
      address          |-> fd.address,
      lead_type        |-> fd.lead_type,
      model_type       |-> fd.model_type,
      lead_score       |-> fd.lead_score,
      status           |-> fd.status,
      potential_amount |-> fd.potential_amount,
      follow_up        |-> fd.follow_up,
      follow_up_date   |-> Some(fd.follow_up_date),
      follow_up_notes  |-> Some(fd.follow_up_notes),
      lead_sealed      |-> fd.lead_sealed ]

\* CHECK (lead_score >= 0 AND lead_score <= 100), and decimal(10,2) of
\* potential_amount (numeric field overflow beyond 8 integer digits).
RowConstraints(row) ==
    /\ row.lead_score >= MinScore
    /\ row.lead_score <= MaxScore
    /\ row.potential_amount <= NumericMax
    /\ row.potential_amount >= 0 - NumericMax

\* Row level security on leads: USING / WITH CHECK (auth.uid() = user_id).
RlsOwn(uid, row) == uid = row.user_id

\* The rows a statement of user uid with .eq('id', id).eq('user_id', uid)
\* acts on: the rows the policy lets uid see, narrowed by the two filters.
TargetRowsById(tbl, uid, id) == { r \in tbl : r.id = id }

TargetRows(tbl, uid, id) ==
    { r \in tbl : RlsOwn(uid, r) /\ r.id = id /\ r.user_id = uid }

\* insert([{ ...formData, user_id }]).select().single()
InsertLead(tbl, uid, fd, id) ==
    LET row == RowOf(fd, id, uid)
        ok  == /\ DateInputOk(fd.follow_up_date)
               /\ RowConstraints(row)
               /\ RlsOwn(uid, row)
    IN  IF ok THEN [ error |-> FALSE, data |-> Some(row), tbl |-> tbl \cup {row} ]
              ELSE [ error |-> TRUE,  data |-> Null,      tbl |-> tbl ]

\* An update that left the status column out of what it writes.
UpdateLeadExceptStatus(tbl, uid, id, fd) ==
    LET target == TargetRows(tbl, uid, id)
        new    == { [RowOf(fd, r.id, r.user_id) EXCEPT !.status = r.status] : r \in target }
        ok     == /\ DateInputOk(fd.follow_up_date)
                  /\ \A r \in new : RowConstraints(r)
    IN  IF ~ok THEN [ error |-> TRUE, data |-> Null, tbl |-> tbl ]
        ELSE IF Cardinality(new) = 1
             THEN [ error |-> FALSE, data |-> Some(CHOOSE r \in new : TRUE),
                    tbl |-> (tbl \ target) \cup new ]
             ELSE [ error |-> TRUE, data |-> Null, tbl |-> (tbl \ target) \cup new ]

\* update({ ...formData, updated_at }).eq('id', id).eq('user_id', uid)
\*   .select().single(): the statement fails as a whole on a bad value; it
\* changes the rows it targets; single() is an error unless exactly one row
\* comes back.
UpdateLead(tbl, uid, id, fd) ==
    LET target == TargetRows(tbl, uid, id)
        new    == { RowOf(fd, r.id, r.user_id) : r \in target }
        ok     == /\ DateInputOk(fd.follow_up_date)
                  /\ \A r \in new : RowConstraints(r)
    IN  IF ~ok THEN [ error |-> TRUE, data |-> Null, tbl |-> tbl ]
        ELSE IF Cardinality(new) = 1
             THEN [ error |-> FALSE, data |-> Some(CHOOSE r \in new : TRUE),
                    tbl |-> (tbl \ target) \cup new ]
             ELSE [ error |-> TRUE, data |-> Null, tbl |-> (tbl \ target) \cup new ]

\* update({ status: newStatus }).eq('id', id).eq('user_id', uid): no row
\* targeted is no error.
UpdateStatusUnlessSealed(tbl, uid, id, newStatus) ==
    LET target == { r \in TargetRows(tbl, uid, id) : ~r.lead_sealed }
        new    == { [r EXCEPT !.status = newStatus] : r \in target }
    IN  [ error |-> FALSE, tbl |-> (tbl \ target) \cup new ]

UpdateStatusAllOwn(tbl, uid, id, newStatus) ==
    LET target == { r \in tbl : RlsOwn(uid, r) /\ r.user_id = uid }
        new    == { [r EXCEPT !.status = newStatus] : r \in target }
    IN  [ error |-> FALSE, tbl |-> (tbl \ target) \cup new ]

UpdateStatus(tbl, uid, id, newStatus) ==
    LET target == TargetRows(tbl, uid, id)
        new    == { [r EXCEPT !.status = newStatus] : r \in target }
    IN  [ error |-> FALSE, tbl |-> (tbl \ target) \cup new ]

\* delete().eq('id', id).eq('user_id', uid): no row targeted is no error.
DeleteLead(tbl, uid, id) ==
    [ error |-> FALSE, tbl |-> tbl \ TargetRows(tbl, uid, id) ]

\* lead_id uuid REFERENCES leads(id) ON DELETE CASCADE
CascadeOff(assoc, tbl) == assoc

Cascade(assoc, tbl) == { a \in assoc : \E r \in tbl : r.id = a.lead_id }

\* Whether the lead with this id is the user's own, another user's, or absent.
Ownership(tbl, uid, id) ==
    IF \E r \in tbl : r.id = id /\ r.user_id = uid THEN "own"
    ELSE IF \E r \in tbl : r.id = id THEN "foreign"
    ELSE "absent"

----------------------------------------------------------------------------
(* What an operation reports *)

NoLast == [ op |-> "none", id |-> 0, own |-> "absent", outcome |-> "none",
            callback |-> FALSE ]

Report(op, id, own, outcome, callback) ==
    [ op |-> op, id |-> id, own |-> own, outcome |-> outcome, callback |-> callback ]

----------------------------------------------------------------------------
(* Dashboard: fetching and listing *)

InitialStats == [ total |-> 0, new |-> 0, contacted |-> 0, closed |-> 0 ]

\* .order('lead_score', { ascending: false })
ScoreDescending(seq) ==
    \A i, j \in 1..Len(seq) : i < j => seq[i].lead_score >= seq[j].lead_score

Orderings(S) ==
    { f \in [1..Cardinality(S) -> S] : \A i, j \in 1..Cardinality(S) : i # j => f[i] # f[j] }

\* A fetch that asks for every row of the table.
FetchAnswersAnyUser(tbl, uid) ==
    { seq \in Orderings(tbl) : ScoreDescending(seq) }

\* select('*').eq('user_id', uid).order('lead_score', descending): the rows
\* of uid in any order the ORDER BY allows (rows of equal lead_score come in
\* an order the backend chooses).
FetchAnswers(tbl, uid) ==
    { seq \in Orderings({ r \in tbl : RlsOwn(uid, r) /\ r.user_id = uid }) :
        ScoreDescending(seq) }

CountStatus(data, st) == Len(SelectSeq(data, LAMBDA l : l.status = st))

\* Statistics whose second counter looks for a status the leads never have.
StatsOfContacted(data) ==
    [ total     |-> Len(data),
      new       |-> CountStatus(data, "New"),
      contacted |-> CountStatus(data, "Contacted"),
      closed    |-> CountStatus(data, "Closed") ]

StatsOf(data) ==
    [ total     |-> Len(data),
      new       |-> CountStatus(data, "New"),
      contacted |-> CountStatus(data, "In-Progress"),
      closed    |-> CountStatus(data, "Closed") ]

InFlight == fetchReqs + BagCardinality(fetchResps)

\* fetchLeads(), up to the request being sent: if (!user) return.
fetchLeads(doIt) ==
    IF doIt /\ user # NoUser
    THEN /\ InFlight < MaxInflight
         /\ fetchReqs' = fetchReqs + 1
         /\ fetchResps' = fetchResps
    ELSE UNCHANGED fetchVars

\* The backend answers a lead fetch, or fails to.
ServeFetch(ok) ==
    /\ fetchReqs > 0
    /\ fetchReqs' = fetchReqs - 1
    /\ \E data \in FetchAnswers(db_leads, user) :
          fetchResps' = fetchResps (+)
              SetToBag({ IF ok THEN [ error |-> FALSE, data |-> data ]
                               ELSE [ error |-> TRUE,  data |-> << >> ] })
    /\ last' = NoLast
    /\ UNCHANGED << user, peer, dbVars, dashVars, formVars >>

\* A fetchLeads that took the data of an answer without looking at its error.
ReceiveFetchUnchecked(resp) ==
    /\ BagIn(resp, fetchResps)
    /\ fetchResps' = fetchResps (-) SetToBag({resp})
    /\ leads' = resp.data
    /\ stats' = StatsOf(resp.data)
    /\ loading' = FALSE
    /\ last' = NoLast
    /\ UNCHANGED << user, peer, dbVars, showForm, filterVars, editingLead, formVars, fetchReqs >>

\* fetchLeads(), from the answer on: setLeads, setStats, finally setLoading(false).
ReceiveFetch(resp) ==
    /\ BagIn(resp, fetchResps)
    /\ fetchResps' = fetchResps (-) SetToBag({resp})
    /\ IF resp.error
       THEN UNCHANGED << leads, stats >>
       ELSE /\ leads' = resp.data
            /\ stats' = StatsOf(resp.data)
    /\ loading' = FALSE
    /\ last' = NoLast
    /\ UNCHANGED << user, peer, dbVars, showForm, filterVars, editingLead, formVars, fetchReqs >>

\* String.prototype.toLowerCase on a sequence of characters.
LowerChar(c) == IF c = "A" THEN "a" ELSE IF c = "B" THEN "b" ELSE c
toLowerCase(str) == [ i \in 1..Len(str) |-> LowerChar(str[i]) ]

\* String.prototype.includes
includes(str, sub) ==
    \E k \in 0..(Len(str) - Len(sub)) : SubSeq(str, k + 1, k + Len(sub)) = sub

matchesSearchCaseSensitive(lead, term) ==
    \/ includes(lead.full_name, term)
    \/ includes(lead.email, term)
    \/ (lead.company # << >> /\ includes(lead.company, term))

\* lead.company && ... : an empty (or null) company never matches.
matchesSearch(lead, term) ==
    \/ includes(toLowerCase(lead.full_name), toLowerCase(term))
    \/ includes(toLowerCase(lead.email), toLowerCase(term))
    \/ (lead.company # << >> /\ includes(toLowerCase(lead.company), toLowerCase(term)))

Filter(list, term, fStatus, fLeadType, fModelType) ==
    SelectSeq(list, LAMBDA lead :
        /\ matchesSearch(lead, term)
        /\ (fStatus = "" \/ lead.status = fStatus)
        /\ (fLeadType = "" \/ lead.lead_type = fLeadType)
        /\ (fModelType = "" \/ lead.model_type = fModelType))

filteredLeads == Filter(leads, searchTerm, filterStatus, filterLeadType, filterModelType)

setSearchTerm(v) ==
    /\ user # NoUser
    /\ searchTerm' = v
    /\ last' = NoLast
    /\ UNCHANGED << user, peer, dbVars, leads, loading, stats, showForm, filterStatus,
                    filterLeadType, filterModelType, editingLead, formVars, fetchVars >>

setFilterStatus(v) ==
    /\ user # NoUser
    /\ filterStatus' = v
    /\ last' = NoLast
    /\ UNCHANGED << user, peer, dbVars, leads, loading, stats, showForm, searchTerm,
                    filterLeadType, filterModelType, editingLead, formVars, fetchVars >>

setFilterLeadType(v) ==
    /\ user # NoUser
    /\ filterLeadType' = v
    /\ last' = NoLast
    /\ UNCHANGED << user, peer, dbVars, leads, loading, stats, showForm, searchTerm,
                    filterStatus, filterModelType, editingLead, formVars, fetchVars >>

setFilterModelType(v) ==
    /\ user # NoUser
    /\ filterModelType' = v
    /\ last' = NoLast
    /\ UNCHANGED << user, peer, dbVars, leads, loading, stats, showForm, searchTerm,
                    filterStatus, filterLeadType, editingLead, formVars, fetchVars >>

----------------------------------------------------------------------------
(* LeadsList: delete and status change *)

\* How an operation ended, from what its storage call returned.
Outcome(r) == IF r.unavailable THEN "unavailable"
              ELSE IF r.error THEN "error" ELSE "success"

\* The storage call did not get through to the backend (network, outage).
Unavailable(tbl) == [ error |-> TRUE, unavailable |-> TRUE, data |-> Null, tbl |-> tbl ]

Answered(r) == [ error |-> r.error, unavailable |-> FALSE, data |-> r.data, tbl |-> r.tbl ]

\* The storage call of handleDelete and what it leaves in the store.
DeleteCall(tbl, uid, id, backendOk) ==
    IF backendOk THEN Answered([ data |-> Null ] @@ DeleteLead(tbl, uid, id))
    ELSE Unavailable(tbl)

\* handleDelete(id): if (!user || !confirm(...)) return; delete; on no error
\* onLeadDeleted(), which is the dashboard's fetchLeads.
handleDelete(id, confirmed, backendOk) ==
    /\ user # NoUser
    /\ confirmed
    /\ LET r == DeleteCall(db_leads, user, id, backendOk)
       IN  /\ db_leads' = r.tbl
           /\ db_lead_products' = Cascade(db_lead_products, r.tbl)
           /\ db_lead_services' = Cascade(db_lead_services, r.tbl)
           /\ fetchLeads(~r.error)
           /\ last' = Report("delete", id, Ownership(db_leads, user, id),
                             Outcome(r), ~r.error)
    /\ UNCHANGED << user, peer, nextId, dashVars, formVars >>

\* The storage call of handleStatusChange.
StatusCall(tbl, uid, id, newStatus, backendOk) ==
    IF backendOk THEN Answered([ data |-> Null ] @@ UpdateStatus(tbl, uid, id, newStatus))
    ELSE Unavailable(tbl)

\* handleStatusChange(id, newStatus): if (!user) return; update the status; on
\* no error onLeadUpdated(), which is the dashboard's fetchLeads.
handleStatusChange(id, newStatus, backendOk) ==
    /\ user # NoUser
    /\ LET r == StatusCall(db_leads, user, id, newStatus, backendOk)
       IN  /\ db_leads' = r.tbl
           /\ fetchLeads(~r.error)
           /\ last' = Report("updateStatus", id, Ownership(db_leads, user, id),
                             Outcome(r), ~r.error)
    /\ UNCHANGED << user, peer, db_lead_products, db_lead_services, nextId, dashVars, formVars >>

----------------------------------------------------------------------------
(* LeadForm *)

FormMounted == showForm \/ editingLead # Null

\* readOnly={!lead && calculatedAmount > 0}
AmountReadOnly == editingLead = Null /\ calculatedAmount > 0

\* The effect without its !lead test.
AutoAmountAlways(fd, isNew, calc) ==
    IF calc > 0 THEN [fd EXCEPT !.potential_amount = calc] ELSE fd

\* A form without the effect below.
AutoAmountOff(fd, isNew, calc) == fd

\* useEffect: if (!lead && calculatedAmount > 0) set potential_amount to it.
\* The effect runs after the render that changed calculatedAmount.
AutoAmount(fd, isNew, calc) ==
    IF isNew /\ calc > 0 THEN [fd EXCEPT !.potential_amount = calc] ELSE fd

\* fetchProducts / fetchServices: on an error the list keeps its value.
CatalogAnswer(table, ok, old) == IF ok THEN ActiveRows(table) ELSE old

\* The dashboard's "Add Lead" button: the new-lead form mounts with its
\* initial state, and its mount effect fetches the catalog.
mountNewForm(productsOk, servicesOk) ==
    /\ user # NoUser
    /\ ~FormMounted
    /\ showForm' = TRUE
    /\ formData' = InitialFormData
    /\ selectedProducts' = << >>
    /\ selectedServices' = << >>
    /\ products' = CatalogAnswer(ProductsTable, productsOk, << >>)
    /\ services' = CatalogAnswer(ServicesTable, servicesOk, << >>)
    /\ formLoading' = FALSE
    /\ submitting' = Null
    /\ last' = NoLast
    /\ UNCHANGED << user, peer, dbVars, leads, loading, stats, filterVars, editingLead, fetchVars >>

\* value || '' and value || false of the effect that loads the lead.
TextOrEmpty(col) == IF col = Null THEN "" ELSE col[1]

FormDataOf(lead) ==
    [ full_name        |-> lead.full_name,
      email            |-> lead.email,
      company          |-> lead.company,
      address          |-> lead.address,
      lead_type        |-> lead.lead_type,
      model_type       |-> lead.model_type,
      lead_score       |-> lead.lead_score,
      status           |-> lead.status,
      potential_amount |-> lead.potential_amount,
      follow_up        |-> lead.follow_up,
      follow_up_date   |-> TextOrEmpty(lead.follow_up_date),
      follow_up_notes  |-> TextOrEmpty(lead.follow_up_notes),
      lead_sealed      |-> lead.lead_sealed ]

\* setEditingLead(lead): the edit form mounts on that lead, fetches the
\* catalog and loads the lead into formData.
setEditingLead(lead, productsOk, servicesOk) ==
    /\ user # NoUser
    /\ ~FormMounted
    /\ editingLead' = Some(lead)
    /\ formData' = FormDataOf(lead)
    /\ selectedProducts' = << >>
    /\ selectedServices' = << >>
    /\ products' = CatalogAnswer(ProductsTable, productsOk, << >>)
    /\ services' = CatalogAnswer(ServicesTable, servicesOk, << >>)
    /\ formLoading' = FALSE
    /\ submitting' = Null
    /\ last' = NoLast
    /\ UNCHANGED << user, peer, dbVars, leads, loading, stats, showForm, filterVars, fetchVars >>

\* The form unmounted: its state is gone.
FormGone ==
    /\ formData' = InitialFormData
    /\ selectedProducts' = << >>
    /\ selectedServices' = << >>
    /\ products' = << >>
    /\ services' = << >>
    /\ formLoading' = FALSE

\* onClose: setShowForm(false) / setEditingLead(null).
onClose ==
    /\ FormMounted
    /\ submitting = Null
    /\ showForm' = FALSE
    /\ editingLead' = Null
    /\ FormGone
    /\ submitting' = Null
    /\ last' = NoLast
    /\ UNCHANGED << user, peer, dbVars, leads, loading, stats, filterVars, fetchVars >>

FormStep(fd) ==
    /\ FormMounted
    /\ formData' = fd
    /\ last' = NoLast
    /\ UNCHANGED << user, peer, dbVars, dashVars, selectedProducts, selectedServices,
                    products, services, formLoading, submitting, fetchVars >>

\* onChange of full_name, email, company, address, lead_type, model_type,
\* status and lead_sealed: setFormData(prev => ({ ...prev, [field]: value })).
onChangeField(field, value) ==
    FormStep([formData EXCEPT ![field] = value])

\* parseInt(e.target.value) || 0 and parseFloat(e.target.value) || 0: the
\* typed text is Some(number), or Null when it is no number.
NumberOrZero(typed) == IF typed = Null THEN 0 ELSE typed[1]

onChangeLeadScore(typed) ==
    FormStep([formData EXCEPT !.lead_score = NumberOrZero(typed)])

onChangePotentialAmount(typed) ==
    /\ ~AmountReadOnly
    /\ FormStep([formData EXCEPT !.potential_amount = NumberOrZero(typed)])

\* The follow_up checkbox: unchecking empties the two dependent fields.
onChangeFollowUp(checked) ==
    FormStep([formData EXCEPT
                !.follow_up = checked,
                !.follow_up_date  = IF checked THEN @ ELSE "",
                !.follow_up_notes = IF checked THEN @ ELSE ""])

\* The two inputs are rendered only while formData.follow_up holds.
onChangeFollowUpDate(value) ==
    /\ formData.follow_up
    /\ FormStep([formData EXCEPT !.follow_up_date = value])

onChangeFollowUpNotes(value) ==
    /\ formData.follow_up
    /\ FormStep([formData EXCEPT !.follow_up_notes = value])

\* prev.includes(id) ? prev.filter(x => x !== id) : [...prev, id]
ToggleAppend(prev, id) == Append(prev, id)

Toggle(prev, id) ==
    IF id \in Range(prev) THEN SelectSeq(prev, LAMBDA x : x # id)
                          ELSE Append(prev, id)

\* handleProductToggle(productId), from a card of the new-lead form, and the
\* effect that follows the change of calculatedAmount.
handleProductToggle(productId) ==
    /\ showForm
    /\ productId \in { p.id : p \in Range(products) }
    /\ selectedProducts' = Toggle(selectedProducts, productId)
    /\ formData' = AutoAmount(formData, editingLead = Null,
                       Amount(selectedProducts', selectedServices, products, services))
    /\ last' = NoLast
    /\ UNCHANGED << user, peer, dbVars, dashVars, selectedServices, products, services,
                    formLoading, submitting, fetchVars >>

handleServiceToggle(serviceId) ==
    /\ showForm
    /\ serviceId \in { x.id : x \in Range(services) }
    /\ selectedServices' = Toggle(selectedServices, serviceId)
    /\ formData' = AutoAmount(formData, editingLead = Null,
                       Amount(selectedProducts, selectedServices', products, services))
    /\ last' = NoLast
    /\ UNCHANGED << user, peer, dbVars, dashVars, selectedProducts, products, services,
                    formLoading, submitting, fetchVars >>

\* A click on the checkbox of a product card: the input's onChange calls
\* handleProductToggle and the click goes on to the card's onClick, which
\* calls it again; the two updaters are applied one after the other.
clickProductCheckbox(productId) ==
    /\ showForm
    /\ productId \in { p.id : p \in Range(products) }
    /\ selectedProducts' = Toggle(Toggle(selectedProducts, productId), productId)
    /\ formData' = AutoAmount(formData, editingLead = Null,
                       Amount(selectedProducts', selectedServices, products, services))
    /\ last' = Report("click", 0, "own", "none", FALSE)
    /\ UNCHANGED << user, peer, dbVars, dashVars, selectedServices, products, services,
                    formLoading, submitting, fetchVars >>

\* The same for the checkbox of a service card.
clickServiceCheckbox(serviceId) ==
    /\ showForm
    /\ serviceId \in { x.id : x \in Range(services) }
    /\ selectedServices' = Toggle(Toggle(selectedServices, serviceId), serviceId)
    /\ formData' = AutoAmount(formData, editingLead = Null,
                       Amount(selectedProducts, selectedServices', products, services))
    /\ last' = Report("click", 0, "own", "none", FALSE)
    /\ UNCHANGED << user, peer, dbVars, dashVars, selectedProducts, products, services,
                    formLoading, submitting, fetchVars >>

----------------------------------------------------------------------------
(* LeadForm: submitting *)

\* The browser's constraint validation of the form, which precedes the submit
\* event: `required` on address, full_name and email, min="0" max="100" on
\* lead_score, min="0" on potential_amount (a readOnly input is not validated).
FormValidNoScore(fd, amountReadOnly) ==
    /\ fd.address # ""
    /\ fd.full_name # << >>
    /\ fd.email # << >>
    /\ (amountReadOnly \/ fd.potential_amount >= 0)

\* A form whose address, full_name and email inputs are not `required`.
FormValidNoRequired(fd, amountReadOnly) ==
    /\ fd.lead_score >= MinScore
    /\ fd.lead_score <= MaxScore
    /\ (amountReadOnly \/ fd.potential_amount >= 0)

\* A form whose amount input has no min.
FormValidNoAmount(fd, amountReadOnly) ==
    /\ fd.address # ""
    /\ fd.full_name # << >>
    /\ fd.email # << >>
    /\ fd.lead_score >= MinScore
    /\ fd.lead_score <= MaxScore

FormValid(fd, amountReadOnly) ==
    /\ fd.address # ""
    /\ fd.full_name # << >>
    /\ fd.email # << >>
    /\ fd.lead_score >= MinScore
    /\ fd.lead_score <= MaxScore
    /\ (amountReadOnly \/ fd.potential_amount >= 0)

\* A click on the submit button of a form that does not validate: the browser
\* reports the invalid field and no submit event is dispatched.
submitInvalid ==
    /\ FormMounted
    /\ ~formLoading
    /\ ~FormValid(formData, AmountReadOnly)
    /\ last' = Report(IF editingLead = Null THEN "create" ELSE "update",
                      IF editingLead = Null THEN 0 ELSE editingLead[1].id,
                      IF editingLead = Null THEN "own"
                      ELSE Ownership(db_leads, user, editingLead[1].id),
                      "validation", FALSE)
    /\ UNCHANGED << user, peer, dbVars, dashVars, formVars, fetchVars >>

\* handleSubmit up to its first await: if (!user) return; setLoading(true);
\* the request is built from the formData, selection and lead of this render.
handleSubmit ==
    /\ FormMounted
    /\ ~formLoading
    /\ FormValid(formData, AmountReadOnly)
    /\ user # NoUser
    /\ editingLead = Null => nextId <= MaxLeads
    /\ formLoading' = TRUE
    /\ submitting' = Some([ user |-> user, lead |-> editingLead, formData |-> formData,
                            selectedProducts |-> selectedProducts,
                            selectedServices |-> selectedServices ])
    /\ last' = NoLast
    /\ UNCHANGED << user, peer, dbVars, dashVars, formData, selectedProducts, selectedServices,
                    products, services, fetchVars >>

\* finally { setLoading(false) }: the flag after handleSubmit, whether or not
\* the try block threw.
LoadingAfterUncaught(thrown) == thrown

LoadingAfter(thrown) == FALSE

\* The storage call of the update branch.
UpdateCall(tbl, uid, id, fd, failAt) ==
    IF failAt = "leads" THEN Unavailable(tbl) ELSE Answered(UpdateLead(tbl, uid, id, fd))

\* The first storage call of the create branch.
InsertCall(tbl, uid, fd, id, failAt) ==
    IF failAt = "leads" THEN Unavailable(tbl) ELSE Answered(InsertLead(tbl, uid, fd, id))

\* selectedProducts.map(productId => ({ lead_id, product_id })), and the same
\* for services.
productInserts(leadId, ids) == { [ lead_id |-> leadId, product_id |-> x ] : x \in Range(ids) }
serviceInserts(leadId, ids) == { [ lead_id |-> leadId, service_id |-> x ] : x \in Range(ids) }

\* An update branch that also rewrote the lead's association rows from the
\* form's selection, which the code does not do.
submitUpdateResync(failAt) ==
    /\ submitting # Null
    /\ submitting[1].lead # Null
    /\ LET sub == submitting[1]
           id  == sub.lead[1].id
           r   == UpdateCall(db_leads, sub.user, id, sub.formData, failAt)
       IN  /\ db_leads' = r.tbl
           /\ db_lead_products' =
                 IF r.error THEN db_lead_products
                 ELSE { a \in db_lead_products : a.lead_id # id }
                         \cup productInserts(id, sub.selectedProducts)
           /\ db_lead_services' =
                 IF r.error THEN db_lead_services
                 ELSE { a \in db_lead_services : a.lead_id # id }
                         \cup serviceInserts(id, sub.selectedServices)
           /\ fetchLeads(~r.error)
           /\ last' = Report("update", id, Ownership(db_leads, sub.user, id),
                             Outcome(r), ~r.error)
    /\ formLoading' = FALSE
    /\ submitting' = Null
    /\ UNCHANGED << user, peer, nextId, dashVars,
                    formData, selectedProducts, selectedServices, products, services >>

\* The update branch of handleSubmit from the backend's answer on: on an error
\* the catch logs it; otherwise onLeadCreated(), which for the edit form is the
\* dashboard's fetchLeads; finally setLoading(false).  The form stays mounted.
submitUpdateDone(failAt) ==
    /\ submitting # Null
    /\ submitting[1].lead # Null
    /\ LET sub == submitting[1]
           id  == sub.lead[1].id
           r   == UpdateCall(db_leads, sub.user, id, sub.formData, failAt)
       IN  /\ db_leads' = r.tbl
           /\ fetchLeads(~r.error)
           /\ last' = Report("update", id, Ownership(db_leads, sub.user, id),
                             Outcome(r), ~r.error)
    /\ formLoading' = LoadingAfter(last'.outcome # "success")
    /\ submitting' = Null
    /\ UNCHANGED << user, peer, db_lead_products, db_lead_services, nextId, dashVars,
                    formData, selectedProducts, selectedServices, products, services >>

\* An association insert is issued when no earlier statement threw and the
\* selection is not empty: if (selectedProducts.length > 0) { ... }.
AttemptedAnyway(thrown, selection) == Len(selection) > 0

Attempted(thrown, selection) == ~thrown /\ Len(selection) > 0

\* if (error) throw error; if (productError) throw productError;
\* if (serviceError) throw serviceError: the try block runs to its end only
\* when none of the three statements failed.
CompletedDespiteAssociations(leadError, productError, serviceError) == ~leadError

Completed(leadError, productError, serviceError) ==
    ~leadError /\ ~productError /\ ~serviceError

\* The create branch of handleSubmit from the first answer on: insert the
\* lead; then, if any product is selected, insert its associations; then the
\* same for services; each error throws to the catch.  On success
\* onLeadCreated() is the dashboard's handleLeadCreated: setShowForm(false),
\* which unmounts the form, and fetchLeads.  finally setLoading(false).
submitCreateDone(failAt) ==
    /\ submitting # Null
    /\ submitting[1].lead = Null
    /\ LET sub   == submitting[1]
           r     == InsertCall(db_leads, sub.user, sub.formData, nextId, failAt)
           pTry  == Attempted(r.error, sub.selectedProducts)
           pErr  == pTry /\ failAt = "lead_products"
           sTry  == Attempted(r.error \/ pErr, sub.selectedServices)
           sErr  == sTry /\ failAt = "lead_services"
           ok    == Completed(r.error, pErr, sErr)
       IN  /\ db_leads' = r.tbl
           /\ nextId' = IF r.error THEN nextId ELSE nextId + 1
           /\ db_lead_products' =
                 IF pTry /\ ~pErr
                 THEN db_lead_products \cup productInserts(nextId, sub.selectedProducts)
                 ELSE db_lead_products
           /\ db_lead_services' =
                 IF sTry /\ ~sErr
                 THEN db_lead_services \cup serviceInserts(nextId, sub.selectedServices)
                 ELSE db_lead_services
           /\ fetchLeads(ok)
           /\ last' = Report("create", IF r.error THEN 0 ELSE nextId, "own",
                             IF ok THEN "success"
                             ELSE IF r.error THEN Outcome(r) ELSE "unavailable", ok)
           /\ IF ok
              THEN /\ showForm' = FALSE
                   /\ FormGone
              ELSE /\ formLoading' = LoadingAfter(TRUE)
                   /\ UNCHANGED << showForm, formData, selectedProducts, selectedServices,
                                   products, services >>
    /\ submitting' = Null
    /\ UNCHANGED << user, peer, leads, loading, stats, filterVars, editingLead >>

----------------------------------------------------------------------------
(* A second session of the same user: the edit form in another browser *)

\* The other session opens the edit form on a lead of its list, which holds
\* the user's leads as stored when it was fetched; the form loads the lead.
peerOpen(lead) ==
    /\ user # NoUser
    /\ peer = Null
    /\ lead \in db_leads
    /\ lead.user_id = user
    /\ peer' = Some([ lead |-> lead, formData |-> FormDataOf(lead), sent |-> FALSE ])
    /\ last' = NoLast
    /\ UNCHANGED << user, dbVars, dashVars, formVars, fetchVars >>

\* The other session edits a field of its form.
peerChangeField(field, value) ==
    /\ peer # Null
    /\ peer' = Some([ peer[1] EXCEPT !.formData[field] = value ])
    /\ last' = NoLast
    /\ UNCHANGED << user, dbVars, dashVars, formVars, fetchVars >>

\* The other session submits its form and the backend applies the update:
\* the update branch of handleSubmit, with the formData of that form.
peerSubmit ==
    /\ user # NoUser
    /\ peer # Null
    /\ FormValid(peer[1].formData, FALSE)
    /\ LET id == peer[1].lead.id
           r  == UpdateCall(db_leads, user, id, peer[1].formData, "none")
       IN  /\ db_leads' = r.tbl
           /\ last' = Report("update", id, Ownership(db_leads, user, id),
                             Outcome(r), ~r.error)
    /\ peer' = Some([ peer[1] EXCEPT !.sent = TRUE ])
    /\ UNCHANGED << user, db_lead_products, db_lead_services, nextId, dashVars,
                    formVars, fetchVars >>

----------------------------------------------------------------------------
(* The identity provider (AuthContext): the session's user *)

\* A user signs in: App renders the Dashboard, which mounts with its initial
\* state, and its mount effect fetches the leads.
signIn(u) ==
    /\ user = NoUser
    /\ user' = u
    /\ loading' = TRUE
    /\ fetchReqs' = 1
    /\ fetchResps' = EmptyBag
    /\ last' = NoLast
    /\ UNCHANGED << dbVars, peer, leads, stats, showForm, filterVars, editingLead, formVars >>

\* The user signs out, with no submit of theirs running: App unmounts the
\* Dashboard and everything under it; answers still on their way find no
\* component to update.
signOut ==
    /\ user # NoUser
    /\ submitting = Null
    /\ user' = NoUser
    /\ leads' = << >>
    /\ loading' = TRUE
    /\ stats' = InitialStats
    /\ showForm' = FALSE
    /\ searchTerm' = << >>
    /\ filterStatus' = ""
    /\ filterLeadType' = ""
    /\ filterModelType' = ""
    /\ editingLead' = Null
    /\ FormGone
    /\ submitting' = Null
    /\ fetchReqs' = 0
    /\ fetchResps' = EmptyBag
    /\ last' = NoLast
    /\ UNCHANGED << dbVars, peer >>

----------------------------------------------------------------------------
(* Input sets *)

SeqsUpTo(S, n) == UNION { [1..k -> S] : k \in 0..n }

NoDuplicates(seq) == \A i, j \in 1..Len(seq) : i # j => seq[i] # seq[j]

PriceSet == {0, 1200, 2500}

CatalogName(id) ==
    IF id = "p1" THEN "Compost Bin - Large"
    ELSE IF id = "p2" THEN "Compost Bin - Small"
    ELSE "Installation Service"

\* Catalog snapshots a fetch can have returned: rows of distinct ids.
Snapshots(ids) ==
    { snap \in SeqsUpTo({ [ id |-> i, name |-> CatalogName(i), price |-> pr, is_active |-> TRUE ]
                            : i \in ids, pr \in PriceSet }, MaxCatLen) :
        NoDuplicates([ k \in 1..Len(snap) |-> snap[k].id ]) }

\* Selection lists, which may name ids the snapshot does not hold.
Selections(ids, unknown) == SeqsUpTo(ids \cup {unknown}, MaxSelLen)

----------------------------------------------------------------------------
(* SpecCalc: the amount calculator on arbitrary selections and snapshots, in *)
(* a new-lead form.                                                          *)

InitCalc ==
    /\ user = "A"
    /\ db_leads = {}
    /\ db_lead_products = {}
    /\ db_lead_services = {}
    /\ nextId = 1
    /\ leads = << >>
    /\ loading = FALSE
    /\ stats = InitialStats
    /\ showForm = TRUE
    /\ searchTerm = << >>
    /\ filterStatus = ""
    /\ filterLeadType = ""
    /\ filterModelType = ""
    /\ editingLead = Null
    /\ products \in Snapshots(ProductIds)
    /\ services \in Snapshots(ServiceIds)
    /\ selectedProducts \in Selections(ProductIds, "px")
    /\ selectedServices \in Selections(ServiceIds, "sx")
    /\ formData = AutoAmount(InitialFormData, TRUE,
                             Amount(selectedProducts, selectedServices, products, services))
    /\ formLoading = FALSE
    /\ fetchReqs = 0
    /\ fetchResps = EmptyBag
    /\ submitting = Null
    /\ peer = Null
    /\ last = NoLast

NextCalc ==
    \/ \E id \in ProductIds : handleProductToggle(id)
    \/ \E id \in ServiceIds : handleServiceToggle(id)

SpecCalc == InitCalc /\ [][NextCalc]_vars

\* Number of times id occurs in a selection list.
Occurrences(sel, id) == Cardinality({ i \in 1..Len(sel) : sel[i] = id })

\* The sum, over the rows of a snapshot, of price times occurrences.
RECURSIVE PricedOccurrences(_, _)
PricedOccurrences(snap, sel) ==
    IF snap = << >> THEN 0
    ELSE Head(snap).price * Occurrences(sel, Head(snap).id)
         + PricedOccurrences(Tail(snap), sel)

\* C4: the calculator's result is the sum of the prices of the selected ids
\* that resolve in the snapshot, products against the product list and
\* services against the service list; an id that does not resolve adds 0.
C4_AmountIsSumOfResolvedPrices ==
    calculatedAmount = PricedOccurrences(products, selectedProducts)
                       + PricedOccurrences(services, selectedServices)

\* A selection with an unresolved product id, a resolved priced product and a
\* resolved priced service.
C4_Witness ==
    /\ \E i \in 1..Len(selectedProducts) :
          selectedProducts[i] \notin { p.id : p \in Range(products) }
    /\ productTotal(selectedProducts, products) > 0
    /\ serviceTotal(selectedServices, services) > 0
    /\ "sx" \in Range(selectedServices)
    /\ formData.potential_amount = calculatedAmount

----------------------------------------------------------------------------
(* Spec: the lead form against the storage backend.  User A is signed in,  *)
(* the dashboard has loaded, the store is empty.  The user fills the form, *)
(* selects products, creates leads and edits them.                          *)

\* The dashboard of user u, loaded, at a store of these leads and association
\* rows.
SignedInWith(u, tbl, leadProducts, leadServices) ==
    /\ user = u
    /\ db_leads = tbl
    /\ db_lead_products = leadProducts
    /\ db_lead_services = leadServices
    /\ leads \in FetchAnswers(tbl, u)
    /\ loading = FALSE
    /\ stats = StatsOf(leads)
    /\ showForm = FALSE
    /\ searchTerm = << >>
    /\ filterStatus = ""
    /\ filterLeadType = ""
    /\ filterModelType = ""
    /\ editingLead = Null
    /\ formData = InitialFormData
    /\ selectedProducts = << >>
    /\ selectedServices = << >>
    /\ products = << >>
    /\ services = << >>
    /\ formLoading = FALSE
    /\ fetchReqs = 0
    /\ fetchResps = EmptyBag
    /\ submitting = Null
    /\ peer = Null
    /\ last = NoLast

SignedIn(u, tbl) == SignedInWith(u, tbl, {}, {})

Init == SignedIn("A", {}) /\ nextId = 1

FailPoints == {"none", "leads", "lead_products", "lead_services"}

\* The user types the required fields, top to bottom.
FillRequired ==
    \/ onChangeField("address", "x")
    \/ formData.address # "" /\ onChangeField("full_name", << "a" >>)
    \/ formData.full_name # << >> /\ onChangeField("email", << "a" >>)

\* The user asks for a follow-up and picks its date.
SetFollowUp ==
    \/ onChangeFollowUp(TRUE)
    \/ onChangeFollowUpDate("2025-08-01")

FollowUpEdits ==
    \/ \E checked \in BOOLEAN : onChangeFollowUp(checked)
    \/ \E d \in {"2025-08-01"} : onChangeFollowUpDate(d)
    \/ \E n \in {"call"} : onChangeFollowUpNotes(n)

\* While a submit is running the user leaves the form alone.
FormIdle == ~formLoading

\* The backend answers the dashboard's lead fetches and the answers arrive.
Fetches ==
    \/ \E ok \in BOOLEAN : ServeFetch(ok)
    \/ \E resp \in BagToSet(fetchResps) : ReceiveFetch(resp)

\* Follow-up handling: new and edit forms, the follow-up checkbox and its two
\* dependent inputs.
Next ==
    \/ FormIdle /\ mountNewForm(TRUE, TRUE)
    \/ FormIdle /\ \E l \in Range(filteredLeads) : setEditingLead(l, TRUE, TRUE)
    \/ FormIdle /\ onClose
    \/ FormIdle /\ FillRequired
    \/ FormIdle /\ FollowUpEdits
    \/ handleSubmit
    \/ \E failAt \in {"none", "leads"} : submitCreateDone(failAt)
    \/ \E failAt \in {"none", "leads"} : submitUpdateDone(failAt)
    \/ Fetches

Spec == Init /\ [][Next]_vars

----------------------------------------------------------------------------
(* SpecAmount: the new-lead form with its product cards and amount field.   *)

AmountInputs == { Null, Some(0 - 5), Some(500) }

NextAmount ==
    \/ FormIdle /\ \E pOk, sOk \in BOOLEAN : mountNewForm(pOk, sOk)
    \/ FormIdle /\ onClose
    \/ FormIdle /\ FillRequired
    \/ FormIdle /\ SetFollowUp
    \/ FormIdle /\ \E id \in ProductIds : handleProductToggle(id)
    \/ FormIdle /\ \E typed \in AmountInputs : onChangePotentialAmount(typed)
    \/ handleSubmit
    \/ \E failAt \in FailPoints : submitCreateDone(failAt)
    \/ Fetches

SpecAmount == Init /\ [][NextAmount]_vars

----------------------------------------------------------------------------
(* SpecScore: new and edit forms with the lead_score input.                 *)

ScoreInputs == { Null, Some(0 - 1), Some(100), Some(101) }

NextScore ==
    \/ FormIdle /\ mountNewForm(TRUE, TRUE)
    \/ FormIdle /\ \E l \in Range(filteredLeads) : setEditingLead(l, TRUE, TRUE)
    \/ FormIdle /\ onClose
    \/ FormIdle /\ FillRequired
    \/ FormIdle /\ SetFollowUp
    \/ FormIdle /\ \E typed \in ScoreInputs : onChangeLeadScore(typed)
    \/ submitInvalid
    \/ handleSubmit
    \/ \E failAt \in {"none", "leads"} : submitCreateDone(failAt)
    \/ \E failAt \in {"none", "leads"} : submitUpdateDone(failAt)
    \/ Fetches

SpecScore == Init /\ [][NextScore]_vars

----------------------------------------------------------------------------
(* SpecOwner: user A at a store that holds leads of A and of B.  The list's *)
(* handlers and the edit form are applied to any stored lead and any id.    *)

StoredIds == 1..MaxStored

\* A lead as the form stores it: required fields filled, a follow-up with
\* its date.
StoredLead(id, uid, profile) ==
    RowOf([ InitialFormData EXCEPT
              !.full_name = profile.full_name, !.email = profile.email,
              !.company = profile.company, !.address = "x",
              !.lead_type = profile.lead_type, !.model_type = profile.model_type,
              !.lead_score = profile.lead_score, !.status = profile.status,
              !.follow_up = TRUE, !.follow_up_date = "2025-08-01" ],
          id, uid)

PlainProfile ==
    [ full_name |-> << "a" >>, email |-> << "a" >>, company |-> << >>,
      lead_type |-> "Individual", model_type |-> "Purchase",
      lead_score |-> 0, status |-> "New" ]

\* Stores where the first id is a lead of A and each other id is a lead of B
\* or no lead at all.
OwnerStores ==
    { { StoredLead(id, IF id = 1 THEN "A" ELSE "B", PlainProfile) : id \in ids } :
        ids \in { i \in SUBSET StoredIds : 1 \in i } }

InitOwner ==
    \E tbl \in OwnerStores :
        /\ SignedIn("A", tbl)
        /\ nextId = MaxStored + 1

NextOwner ==
    \/ \E id \in StoredIds : handleDelete(id, TRUE, TRUE)
    \/ \E id \in StoredIds : handleStatusChange(id, "In-Progress", TRUE)
    \/ FormIdle /\ \E l \in db_leads : setEditingLead(l, TRUE, TRUE)
    \/ FormIdle /\ onChangeField("status", "Closed")
    \/ FormIdle /\ onClose
    \/ handleSubmit
    \/ submitUpdateDone("none")
    \/ Fetches

SpecOwner == InitOwner /\ [][NextOwner]_vars

----------------------------------------------------------------------------
(* SpecList: the dashboard's list over a store of varied leads.  The user  *)
(* types search terms, picks filters and changes the status of a listed    *)
(* lead; each status change refetches the list.                            *)

\* Leads that differ in letter case, company, type, model, status and score;
\* two of them share a lead_score.
ListProfiles ==
    << [ full_name |-> << "A", "b" >>, email |-> << "x" >>, company |-> << >>,
        lead_type |-> "Individual", model_type |-> "Purchase",
        lead_score |-> 50, status |-> "New" ],
      [ full_name |-> << "b" >>, email |-> << "y" >>, company |-> << "A" >>,
        lead_type |-> "Agent", model_type |-> "Rent",
        lead_score |-> 50, status |-> "Closed" ],
      [ full_name |-> << "c" >>, email |-> << "a" >>, company |-> << "c" >>,
        lead_type |-> "Agent", model_type |-> "Purchase",
        lead_score |-> 80, status |-> "Closed" ] >>

\* The profiles taken in turn, starting after the first `shift` of them.
ProfileAt(shift, id) == ListProfiles[((id - 1 + shift) % Len(ListProfiles)) + 1]

\* Stores with a lead under every id, of successive profiles: all are A's but
\* the last, which is A's or B's.
ListStores ==
    { { StoredLead(id, IF id < MaxStored THEN "A" ELSE lastOwner, ProfileAt(shift, id)) :
          id \in StoredIds } :
        lastOwner \in Users, shift \in 0..(Len(ListProfiles) - 1) }

SearchTerms == { << >>, << "A" >>, << "a", "B" >> }

InitList ==
    \E tbl \in ListStores :
        /\ SignedIn("A", tbl)
        /\ nextId = MaxStored + 1

NextList ==
    \/ \E v \in SearchTerms : setSearchTerm(v)
    \/ \E v \in {"", "Closed"} : setFilterStatus(v)
    \/ \E v \in {"", "Agent"} : setFilterLeadType(v)
    \/ \E v \in {"", "Rent"} : setFilterModelType(v)
    \/ \E l \in Range(filteredLeads) : handleStatusChange(l.id, "Closed", TRUE)
    \/ Fetches

SpecList == InitList /\ [][NextList]_vars

----------------------------------------------------------------------------
(* SpecAuth: sessions of A and of B, one after the other, at a store that *)
(* holds leads of both.  The signed-in user changes the status of listed   *)
(* leads and deletes them.                                                  *)

NextAuth ==
    \/ signOut
    \/ \E u \in Users : signIn(u)
    \/ \E l \in Range(filteredLeads) : handleStatusChange(l.id, "Closed", TRUE)
    \/ \E l \in Range(filteredLeads) : handleDelete(l.id, TRUE, TRUE)
    \/ \E v \in {"", "Closed"} : setFilterStatus(v)
    \/ Fetches

SpecAuth == InitOwner /\ [][NextAuth]_vars

----------------------------------------------------------------------------
(* SpecRequired: the new-lead form with its three required inputs typed *)
(* and cleared in any order, and a product card.                         *)

NextRequired ==
    \/ FormIdle /\ mountNewForm(TRUE, TRUE)
    \/ FormIdle /\ onClose
    \/ FormIdle /\ \E v \in {"", "x"} : onChangeField("address", v)
    \/ FormIdle /\ \E v \in {<< >>, << "a" >>} : onChangeField("full_name", v)
    \/ FormIdle /\ \E v \in {<< >>, << "a" >>} : onChangeField("email", v)
    \/ FormIdle /\ SetFollowUp
    \/ FormIdle /\ handleProductToggle("p1")
    \/ submitInvalid
    \/ handleSubmit
    \/ submitCreateDone("none")
    \/ Fetches

SpecRequired == Init /\ [][NextRequired]_vars

----------------------------------------------------------------------------
(* SpecEdit: user A at a store of leads created with catalog items.  The  *)
(* user moves leads between statuses from the list and in the edit form. *)

\* What was selected when the lead of this id was created: the two products
\* for odd ids, the service for even ids.
CreatedProducts(id) == IF id % 2 = 1 THEN << "p1", "p2" >> ELSE << >>
CreatedServices(id) == IF id % 2 = 1 THEN << >> ELSE << "s1" >>

\* The lead a create of A stored under this id, sealed or not, with the
\* amount of its selection.
CreatedLead(id, sealed) ==
    [ StoredLead(id, "A", PlainProfile) EXCEPT
        !.lead_score = 10 * id,
        !.lead_sealed = sealed,
        !.potential_amount = Amount(CreatedProducts(id), CreatedServices(id),
                                    ActiveRows(ProductsTable), ActiveRows(ServicesTable)) ]

InitEdit ==
    \E sealed \in [StoredIds -> BOOLEAN] :
        /\ SignedInWith("A",
              { CreatedLead(id, sealed[id]) : id \in StoredIds },
              UNION { productInserts(id, CreatedProducts(id)) : id \in StoredIds },
              UNION { serviceInserts(id, CreatedServices(id)) : id \in StoredIds })
        /\ nextId = MaxStored + 1

\* The user acts on a list that is up to date: no lead fetch is under way.
ListSettled == InFlight = 0

\* The form is an overlay over the whole page: the list's controls are in
\* reach only while no form is open.
ListInReach == ListSettled /\ ~FormMounted

NextEdit ==
    \/ ListInReach /\ \E l \in Range(filteredLeads), t \in Statuses :
                         handleStatusChange(l.id, t, TRUE)
    \/ ListSettled /\ FormIdle /\ \E l \in Range(filteredLeads) : setEditingLead(l, TRUE, TRUE)
    \/ FormIdle /\ \E t \in Statuses : onChangeField("status", t)
    \/ FormIdle /\ onClose
    \/ ListSettled /\ handleSubmit
    \/ submitUpdateDone("none")
    \/ Fetches

SpecEdit == InitEdit /\ [][NextEdit]_vars

----------------------------------------------------------------------------
(* SpecStatus: the same store under the list's handlers alone: any status *)
(* for any listed lead, and deletes.                                       *)

NextStatus ==
    \/ ListSettled /\ \E l \in Range(filteredLeads), t \in Statuses :
                         handleStatusChange(l.id, t, TRUE)
    \/ ListSettled /\ \E l \in Range(filteredLeads), ok \in BOOLEAN :
                         handleDelete(l.id, TRUE, ok)
    \/ Fetches

SpecStatus == InitEdit /\ [][NextStatus]_vars

----------------------------------------------------------------------------
(* SpecLife: the life of a lead from an empty store: created through the *)
(* new-lead form with a selection, a status and the sealed checkbox, then  *)
(* deleted from the list.                                                  *)

\* The user makes the choices of a new lead (cards, status, sealed) before
\* typing the required fields.
FreshForm == showForm /\ formData.address = ""

NextLife ==
    \/ ListSettled /\ FormIdle /\ mountNewForm(TRUE, TRUE)
    \/ FormIdle /\ onClose
    \/ FormIdle /\ FreshForm /\ handleProductToggle("p1")
    \/ FormIdle /\ FreshForm /\ handleServiceToggle("s1")
    \/ FormIdle /\ FreshForm /\ onChangeField("status", "Closed")
    \/ FormIdle /\ FreshForm /\ onChangeField("lead_sealed", TRUE)
    \/ FormIdle /\ showForm /\ FillRequired
    \/ FormIdle /\ showForm /\ formData.email # << >> /\ SetFollowUp
    \/ ListSettled /\ handleSubmit
    \/ \E failAt \in FailPoints : submitCreateDone(failAt)
    \/ ListInReach /\ \E l \in Range(filteredLeads) : handleDelete(l.id, TRUE, TRUE)
    \/ Fetches

SpecLife == Init /\ [][NextLife]_vars

----------------------------------------------------------------------------
(* SpecSubmit: submits of the new-lead form and of the edit form, with a   *)
(* backend that answers every storage call, with a result or an error.     *)

NextSubmit ==
    \/ ListSettled /\ FormIdle /\ mountNewForm(TRUE, TRUE)
    \/ ListSettled /\ FormIdle /\ \E l \in Range(filteredLeads) : setEditingLead(l, TRUE, TRUE)
    \/ FormIdle /\ onClose
    \/ FormIdle /\ showForm /\ FillRequired
    \/ FormIdle /\ showForm /\ SetFollowUp
    \/ FormIdle /\ handleProductToggle("p1")
    \/ ListSettled /\ handleSubmit
    \/ \E failAt \in FailPoints : submitCreateDone(failAt)
    \/ \E failAt \in {"none", "leads"} : submitUpdateDone(failAt)
    \/ Fetches

\* Every storage call of a running submit is answered.
BackendAnswers ==
    /\ WF_vars(\E failAt \in FailPoints : submitCreateDone(failAt))
    /\ WF_vars(\E failAt \in {"none", "leads"} : submitUpdateDone(failAt))

SpecSubmit == Init /\ [][NextSubmit]_vars /\ BackendAnswers

----------------------------------------------------------------------------
(* SpecFetch: fetches that fail.  User A at a store of leads closes leads  *)
(* from the list, and opens forms whose catalog fetches may fail.          *)

NextFetch ==
    \/ ListInReach /\ \E l \in Range(filteredLeads) : handleStatusChange(l.id, "Closed", TRUE)
    \/ FormIdle /\ \E productsOk, servicesOk \in BOOLEAN : mountNewForm(productsOk, servicesOk)
    \/ FormIdle /\ \E l \in Range(filteredLeads), productsOk, servicesOk \in BOOLEAN :
                      setEditingLead(l, productsOk, servicesOk)
    \/ FormIdle /\ onClose
    \/ FormIdle /\ showForm /\ FillRequired
    \/ FormIdle /\ \E id \in ProductIds : handleProductToggle(id)
    \/ Fetches

SpecFetch == InitEdit /\ [][NextFetch]_vars

----------------------------------------------------------------------------
(* SpecCatalog: the new-lead form over a catalog with an inactive product: *)
(* the user clicks whatever card is there and creates the lead.            *)

CatalogIds == { r.id : r \in Range(ProductsTable) }

NextCatalog ==
    \/ FormIdle /\ \E productsOk, servicesOk \in BOOLEAN : mountNewForm(productsOk, servicesOk)
    \/ FormIdle /\ onClose
    \/ FormIdle /\ FreshForm /\ \E id \in CatalogIds : handleProductToggle(id)
    \/ FormIdle /\ FreshForm /\ \E id \in ServiceIds : handleServiceToggle(id)
    \/ FormIdle /\ showForm /\ FillRequired
    \/ FormIdle /\ showForm /\ formData.email # << >> /\ SetFollowUp
    \/ handleSubmit
    \/ \E failAt \in FailPoints : submitCreateDone(failAt)
    \/ Fetches

SpecCatalog == Init /\ [][NextCatalog]_vars

----------------------------------------------------------------------------
(* SpecManual: amounts typed into the new-lead form and into the edit     *)
(* form, negative ones included, next to amounts the calculator derives.   *)

NextManual ==
    \/ ListSettled /\ FormIdle /\ mountNewForm(TRUE, TRUE)
    \/ ListSettled /\ FormIdle /\ \E l \in Range(filteredLeads) : setEditingLead(l, TRUE, TRUE)
    \/ FormIdle /\ onClose
    \/ FormIdle /\ FreshForm /\ handleProductToggle("p1")
    \/ FormIdle /\ \E typed \in AmountInputs : onChangePotentialAmount(typed)
    \/ FormIdle /\ showForm /\ FillRequired
    \/ FormIdle /\ showForm /\ formData.email # << >> /\ SetFollowUp
    \/ FormIdle /\ submitInvalid
    \/ ListSettled /\ handleSubmit
    \/ submitCreateDone("none")
    \/ submitUpdateDone("none")
    \/ Fetches

SpecManual == Init /\ [][NextManual]_vars

----------------------------------------------------------------------------
(* SpecToggle: clicks on the cards and on the checkboxes of the new-lead   *)
(* form, in any order, while the form is being filled.                     *)

NextToggle ==
    \/ mountNewForm(TRUE, TRUE)
    \/ onClose
    \/ \E id \in ProductIds : handleProductToggle(id)
    \/ \E id \in ServiceIds : handleServiceToggle(id)
    \/ \E id \in ProductIds : clickProductCheckbox(id)
    \/ \E id \in ServiceIds : clickServiceCheckbox(id)
    \/ showForm /\ FillRequired
    \/ showForm /\ SetFollowUp

SpecToggle == Init /\ [][NextToggle]_vars

----------------------------------------------------------------------------
(* SpecRace: status changes from the list while earlier lead fetches are   *)
(* still under way; every fetch is answered without error and the answers  *)
(* arrive in any order.                                                     *)

NextRace ==
    \/ \E l \in Range(filteredLeads), t \in Statuses : handleStatusChange(l.id, t, TRUE)
    \/ \E l \in Range(filteredLeads) : handleDelete(l.id, TRUE, TRUE)
    \/ ServeFetch(TRUE)
    \/ \E resp \in BagToSet(fetchResps) : ReceiveFetch(resp)

SpecRace == InitEdit /\ [][NextRace]_vars

----------------------------------------------------------------------------
(* SpecTwo: two sessions of user A edit the same leads: this session from *)
(* its list and its edit form, the other from an edit form of its own.     *)

NextTwo ==
    \/ ListInReach /\ \E l \in Range(filteredLeads) : handleStatusChange(l.id, "Closed", TRUE)
    \/ ListSettled /\ FormIdle /\ \E l \in Range(filteredLeads) : setEditingLead(l, TRUE, TRUE)
    \/ FormIdle /\ editingLead # Null /\ onChangeField("status", "In-Progress")
    \/ ListSettled /\ handleSubmit
    \/ submitUpdateDone("none")
    \/ \E lead \in db_leads : peerOpen(lead)
    \/ peerChangeField("address", "y")
    \/ peerSubmit
    \/ ServeFetch(TRUE)
    \/ \E resp \in BagToSet(fetchResps) : ReceiveFetch(resp)

SpecTwo == InitEdit /\ [][NextTwo]_vars

----------------------------------------------------------------------------
(* Properties of the amount of a new lead (SpecAmount) *)

\* The row of table leads with this id, in a set of rows that holds one.
LeadWithId(tbl, id) == CHOOSE r \in tbl : r.id = id

\* C5: when a create inserts a lead with at least one catalog item selected
\* and a calculated total above 0, the potential_amount stored is the
\* calculator's total of the submitted selection, whatever was typed before.
C5_CreatedAmountIsCalculated ==
    [][ ( /\ submitting # Null
          /\ submitting[1].lead = Null
          /\ last'.op = "create"
          /\ last'.id # 0 )
        => LET sub   == submitting[1]
               total == Amount(sub.selectedProducts, sub.selectedServices, products, services)
           IN  ( Len(sub.selectedProducts) + Len(sub.selectedServices) > 0 /\ total > 0 )
               => /\ \E r \in db_leads' : r.id = last'.id
                  /\ LeadWithId(db_leads', last'.id).potential_amount = total
      ]_vars

\* A lead created with the products priced 2500 and 1200 selected, stored with
\* both associations and the amount 3700.
C5_Witness ==
    /\ last.op = "create"
    /\ last.outcome = "success"
    /\ \E r \in db_leads : r.id = last.id /\ r.potential_amount = 3700
    /\ { a.product_id : a \in { b \in db_lead_products : b.lead_id = last.id } } = {"p1", "p2"}
    /\ { b \in db_lead_services : b.lead_id = last.id } = {}

----------------------------------------------------------------------------
(* Properties of the follow-up fields (Spec) *)

\* What the form just wrote, when the step just taken ended a create or an
\* update of the user's own lead that the backend answered.
FormWroteOwn(op) ==
    /\ last.op = op
    /\ last.own = "own"
    /\ last.outcome \in {"success", "error"}

FollowUpNull(r) == r.follow_up_date = Null /\ r.follow_up_notes = Null

C7_UpdateFollowUpOffNullsFields ==
    ( FormWroteOwn("update") /\ ~formData.follow_up )
    => \A r \in db_leads : r.id = last.id => FollowUpNull(r)

\* The second update of the scenario: the stored lead has follow_up = true and
\* a date, and the edit form has just submitted follow_up = false for it.
C7_Witness ==
    /\ FormWroteOwn("update")
    /\ ~formData.follow_up
    /\ \E r \in db_leads : r.id = last.id /\ r.follow_up

----------------------------------------------------------------------------
(* Properties of lead_score (SpecScore) *)

ScoreInRange(n) == n >= MinScore /\ n <= MaxScore

\* C8: a submit of a form whose lead_score is outside [0,100] is rejected as a
\* validation error and leaves the lead store as it was; every stored lead
\* has its lead_score in [0,100].
C8_ScoreOutOfRangeRejected ==
    /\ [](\A r \in db_leads : ScoreInRange(r.lead_score))
    /\ [][ ( FormMounted /\ ~ScoreInRange(formData.lead_score) )
           => /\ db_leads' = db_leads
              /\ formLoading' = FALSE
              /\ last'.op \in {"create", "update"} => last'.outcome = "validation"
         ]_vars

\* A submit of an edit form whose lead_score is 101 has just been refused.
C8_Witness ==
    /\ last.op = "update"
    /\ last.outcome = "validation"
    /\ formData.lead_score = 101
    /\ \E r \in db_leads : r.id = last.id /\ ScoreInRange(r.lead_score)

----------------------------------------------------------------------------
(* Properties of ownership (SpecOwner) *)

FormOps == {"update", "updateStatus", "delete"}

\* C1: no update, status change or delete issued by the signed-in user
\* removes or alters a lead of another user: every lead that is not the
\* user's is in the store, field for field, after every step.
C1_ForeignLeadsUntouched ==
    [][ \A l \in db_leads : l.user_id # user => l \in db_leads' ]_vars

\* A delete against the id of another user's lead has just been answered, and
\* that lead is in the store.
C1_Witness ==
    /\ last.op = "delete"
    /\ last.own = "foreign"
    /\ last.outcome = "success"
    /\ \E l \in db_leads : l.id = last.id /\ l.user_id # user

\* C2 (as stated): an update, status change or delete against the id of
\* another user's lead, once the backend has answered it, ends as an error
\* and without its success callback.
C2_ForeignOpsReportError ==
    ( last.op \in FormOps /\ last.own = "foreign" /\ last.outcome # "unavailable" )
    => ( last.outcome = "error" /\ ~last.callback )

\* What a caller sees of a storage call: how it ended, whether the success
\* callback runs, the row handed back.
Observed(r) == [ outcome |-> Outcome(r), callback |-> ~r.error, data |-> r.data ]

\* C3: for delete, status change and update alike, what the caller sees of a
\* call against an id that no lead has equals what it sees of the same call
\* against the id of another user's lead, and neither call changes the store.
C3_AbsentAndForeignAlike ==
    \A id1, id2 \in StoredIds :
        ( /\ Ownership(db_leads, user, id1) = "absent"
          /\ Ownership(db_leads, user, id2) = "foreign" )
        => /\ \A ok \in BOOLEAN :
                 /\ Observed(DeleteCall(db_leads, user, id1, ok))
                    = Observed(DeleteCall(db_leads, user, id2, ok))
                 /\ DeleteCall(db_leads, user, id2, ok).tbl = db_leads
                 /\ DeleteCall(db_leads, user, id1, ok).tbl = db_leads
           /\ \A ok \in BOOLEAN, st \in Statuses :
                 /\ Observed(StatusCall(db_leads, user, id1, st, ok))
                    = Observed(StatusCall(db_leads, user, id2, st, ok))
                 /\ StatusCall(db_leads, user, id2, st, ok).tbl = db_leads
                 /\ StatusCall(db_leads, user, id1, st, ok).tbl = db_leads
           /\ \A failAt \in {"none", "leads"} :
                 /\ Observed(UpdateCall(db_leads, user, id1, formData, failAt))
                    = Observed(UpdateCall(db_leads, user, id2, formData, failAt))
                 /\ UpdateCall(db_leads, user, id2, formData, failAt).tbl = db_leads
                 /\ UpdateCall(db_leads, user, id1, formData, failAt).tbl = db_leads

\* The edit form has just submitted a well-formed update against the id of
\* another user's lead, while another id is held by no lead.
C3_Witness ==
    /\ last.op = "update"
    /\ last.own = "foreign"
    /\ last.outcome = "error"
    /\ DateInputOk(formData.follow_up_date)
    /\ RowConstraints(RowOf(formData, last.id, user))
    /\ \E id \in StoredIds : Ownership(db_leads, user, id) = "absent"

----------------------------------------------------------------------------
(* Properties of the list (SpecList) *)

\* Case-insensitive substring: sub occurs in str at some offset, letter for
\* letter up to case.
OccursIgnoringCase(str, sub) ==
    \E k \in 0..Len(str) :
        /\ k + Len(sub) <= Len(str)
        /\ \A i \in 1..Len(sub) : LowerChar(str[k + i]) = LowerChar(sub[i])

\* A lead satisfies all active predicates.
SatisfiesAll(lead) ==
    /\ \/ OccursIgnoringCase(lead.full_name, searchTerm)
       \/ OccursIgnoringCase(lead.email, searchTerm)
       \/ OccursIgnoringCase(lead.company, searchTerm)
    /\ filterStatus # "" => lead.status = filterStatus
    /\ filterLeadType # "" => lead.lead_type = filterLeadType
    /\ filterModelType # "" => lead.model_type = filterModelType

\* Positions of the fetched list whose lead satisfies all active predicates.
Kept == { i \in 1..Len(leads) : SatisfiesAll(leads[i]) }

\* C9: the listed result holds exactly the fetched leads that satisfy all
\* active predicates, each once and in the order of the fetch, which is
\* lead_score descending.
C9_ListIsExactlyTheMatches ==
    /\ Len(filteredLeads) = Cardinality(Kept)
    /\ \A k \in 1..Len(filteredLeads) :
          \E i \in Kept :
              /\ Cardinality({ j \in Kept : j <= i }) = k
              /\ filteredLeads[k] = leads[i]
    /\ ScoreDescending(filteredLeads)

\* status Closed and lead_type Agent are both active with a search term in
\* upper case; one fetched lead is left out and a listed one holds the term
\* in lower case only.
C9_Witness ==
    /\ filterStatus = "Closed"
    /\ filterLeadType = "Agent"
    /\ searchTerm = << "A" >>
    /\ Len(leads) >= 2
    /\ Len(filteredLeads) >= 1
    /\ Len(filteredLeads) < Len(leads)
    /\ \E k \in 1..Len(filteredLeads) :
          /\ ~includes(filteredLeads[k].full_name, searchTerm)
          /\ ~includes(filteredLeads[k].email, searchTerm)
          /\ ~includes(filteredLeads[k].company, searchTerm)

\* C10 (as stated): any two answers the backend may give to the list request
\* in one state of the store, under the same filters, are the same sequence.
C10_ListTwiceSameOrder ==
    \A d1, d2 \in FetchAnswers(db_leads, user) :
        Filter(d1, searchTerm, filterStatus, filterLeadType, filterModelType)
        = Filter(d2, searchTerm, filterStatus, filterLeadType, filterModelType)

\* The list on screen and an answer to a refetch of the unchanged store hold
\* the same leads in different orders.
C10_Witness ==
    /\ leads \in FetchAnswers(db_leads, user)
    /\ \E d \in FetchAnswers(db_leads, user) : d # leads /\ Range(d) = Range(leads)
    /\ last.op = "updateStatus"

----------------------------------------------------------------------------
(* Properties of the session (SpecAuth) *)

\* C11: every lead in the dashboard's list has the user_id of the signed-in
\* user, and while nobody is signed in the list is empty and no lead fetch is
\* sent or on its way.
C11_DisplayedLeadsAreOwn ==
    /\ \A i \in 1..Len(leads) : user # NoUser /\ leads[i].user_id = user
    /\ user = NoUser => (fetchReqs = 0 /\ fetchResps = EmptyBag)

\* B is signed in and sees a lead of B's, in a store that holds a lead of A,
\* who was signed in before.
C11_Witness ==
    /\ user = "B"
    /\ leads # << >>
    /\ \E r \in db_leads : r.user_id = "A"

----------------------------------------------------------------------------
(* Properties of the required fields (SpecRequired) *)

RequiredFieldEmpty(fd) == fd.full_name = << >> \/ fd.email = << >> \/ fd.address = ""

\* C12: while the new-lead form holds an empty full_name, email or address,
\* no step inserts into leads, lead_products or lead_services or starts a
\* request, and a submit of the form ends as a validation refusal.
C12_EmptyRequiredFieldRejected ==
    [][ ( showForm /\ RequiredFieldEmpty(formData) )
        => /\ db_leads' = db_leads
           /\ db_lead_products' = db_lead_products
           /\ db_lead_services' = db_lead_services
           /\ submitting' = Null
           /\ last'.op = "create" => last'.outcome = "validation"
      ]_vars

\* A submit of a new-lead form with a product selected and a follow-up date,
\* address and full_name filled and email empty has just been refused.
C12_Witness ==
    /\ last.op = "create"
    /\ last.outcome = "validation"
    /\ formData.address # ""
    /\ formData.full_name # << >>
    /\ formData.email = << >>
    /\ selectedProducts # << >>
    /\ ScoreInRange(formData.lead_score)
    /\ DateInputOk(formData.follow_up_date)

----------------------------------------------------------------------------
(* Properties of the edit form (SpecEdit) *)

\* C13: in the edit form the calculator never determines potential_amount.
\* With the amount input left alone, the form holds the amount of the lead it
\* was opened on, which is the stored one; the auto-amount effect leaves the
\* form as it is for every selection and catalog; and a successful update
\* stores that same amount.
C13_EditAmountNotCalculated ==
    editingLead # Null =>
        /\ formData.potential_amount = editingLead[1].potential_amount
        /\ \A r \in db_leads :
              r.id = editingLead[1].id => r.potential_amount = editingLead[1].potential_amount
        /\ \A selP \in Selections(ProductIds, "px"), selS \in Selections(ServiceIds, "sx"),
              prods \in {products, ActiveRows(ProductsTable)},
              servs \in {services, ActiveRows(ServicesTable)} :
              AutoAmount(formData, editingLead = Null, Amount(selP, selS, prods, servs))
              = formData
        /\ ( last.op = "update" /\ last.outcome = "success" )
           => LeadWithId(db_leads, last.id).potential_amount
              = editingLead[1].potential_amount

\* An update of the lead created with the two products (amount 3700) has just
\* succeeded with a changed status, the catalog being loaded in the form.
C13_Witness ==
    /\ editingLead # Null
    /\ last.op = "update"
    /\ last.outcome = "success"
    /\ editingLead[1].potential_amount = 3700
    /\ products # << >>
    /\ formData.status # editingLead[1].status

----------------------------------------------------------------------------
(* Properties of the amount input of the new-lead form (SpecAmount) *)

\* What the amount input can hold by typing alone: the form's initial amount
\* and the values typed into it.
ManualAmounts ==
    { NumberOrZero(typed) : typed \in AmountInputs } \cup { InitialFormData.potential_amount }

\* C14 (as stated): in the new-lead form, whenever the calculated total is 0
\* the amount input is editable and holds a manual entry, never a value the
\* calculator derived, also after items were selected and deselected again.
C14_ZeroTotalHoldsManualEntry ==
    ( showForm /\ calculatedAmount = 0 )
    => ( ~AmountReadOnly /\ formData.potential_amount \in ManualAmounts )

\* Nothing is selected any more, the input is editable again, and it still
\* holds an amount the calculator derived from an earlier selection.
C14_Witness ==
    /\ showForm
    /\ products # << >>
    /\ selectedProducts = << >>
    /\ selectedServices = << >>
    /\ ~AmountReadOnly
    /\ formData.potential_amount \in { p.price : p \in Range(products) }

\* C15: an update and a status change of an existing lead leave every row of
\* lead_products and lead_services as it was, for that lead and for every
\* other lead.
C15_UpdatesLeaveAssociations ==
    [][ last'.op \in {"update", "updateStatus"}
        => /\ db_lead_products' = db_lead_products
           /\ db_lead_services' = db_lead_services ]_vars

\* A lead that has association rows was updated through the edit form.
C15_Witness ==
    /\ last.op = "update"
    /\ last.own = "own"
    /\ last.outcome = "success"
    /\ \E a \in db_lead_products : a.lead_id = last.id
    /\ \E r \in db_leads : r.id # last.id /\ \E a \in db_lead_services : a.lead_id = r.id

----------------------------------------------------------------------------
(* Properties of the life of a lead (SpecLife) *)

\* The rows the create under way has to write for the lead with this id.
SelectionRowsWritten(id) ==
    /\ productInserts(id, submitting[1].selectedProducts) \subseteq db_lead_products'
    /\ serviceInserts(id, submitting[1].selectedServices) \subseteq db_lead_services'

\* C16: when a create has inserted its lead row and the rows of the selection
\* are not all written, the create does not report success and does not call
\* back, the form stays open with its data, and the lead row is in the store.
C16_PartialCreateReportsError ==
    [][ ( /\ submitting # Null
          /\ \E r \in db_leads' \ db_leads : ~SelectionRowsWritten(r.id) )
        => /\ last'.op = "create"
           /\ last'.outcome \in {"error", "unavailable"}
           /\ ~last'.callback
           /\ showForm' /\ formData' = formData
           /\ fetchReqs' = fetchReqs
           /\ \E r \in db_leads' : r.id = last'.id ]_vars

\* A create failed on its association rows: the lead is stored, its form still
\* shows the selection, and no association row refers to the lead.
C16_Witness ==
    /\ last.op = "create"
    /\ last.outcome = "unavailable"
    /\ showForm
    /\ selectedProducts # << >>
    /\ \E r \in db_leads : r.id = last.id
    /\ ~ \E a \in db_lead_products : a.lead_id = last.id
    /\ ~ \E a \in db_lead_services : a.lead_id = last.id

\* C22: a create writes the lead row first, then the product rows, then the
\* service rows, every association row with the id of the lead row just
\* inserted; a step that fails leaves every later step undone; the callback is
\* made, once, exactly when all three steps are done.
C22_CreateWritesInOrder ==
    [][ last'.op = "create"
        => LET sub      == submitting[1]
               newLeads == db_leads' \ db_leads
               newProd  == db_lead_products' \ db_lead_products
               newServ  == db_lead_services' \ db_lead_services
               allProd  == UNION { productInserts(r.id, sub.selectedProducts) : r \in newLeads }
               allServ  == UNION { serviceInserts(r.id, sub.selectedServices) : r \in newLeads }
           IN  /\ Cardinality(newLeads) <= 1
               /\ \A r \in newLeads : r.id = last'.id
               /\ newProd \in { {}, allProd }
               /\ newServ \in { {}, allServ }
               /\ newServ # {} => newProd = allProd
               /\ last'.callback <=> ( newLeads # {} /\ newProd = allProd /\ newServ = allServ )
               /\ IF last'.callback
                  THEN ~showForm' /\ fetchReqs' = fetchReqs + 1
                  ELSE showForm' /\ fetchReqs' = fetchReqs ]_vars

\* A create with products and services selected failed on its service rows:
\* the lead and its product rows are stored and no service row is.
C22_Witness ==
    /\ last.op = "create"
    /\ last.outcome = "unavailable"
    /\ selectedServices # << >>
    /\ \E r \in db_leads : r.id = last.id
    /\ \E a \in db_lead_products : a.lead_id = last.id
    /\ ~ \E a \in db_lead_services : a.lead_id = last.id

\* C20 (as stated): right after a create succeeded the created lead has
\* status New and is not sealed.
C20_CreatedNewAndUnsealed ==
    ( last.op = "create" /\ last.outcome = "success" )
    => /\ LeadWithId(db_leads, last.id).status = "New"
       /\ ~LeadWithId(db_leads, last.id).lead_sealed

\* A create succeeded and stored a lead that is Closed and sealed.
C20_Witness ==
    /\ last.op = "create"
    /\ last.outcome = "success"
    /\ LeadWithId(db_leads, last.id).status = "Closed"
    /\ LeadWithId(db_leads, last.id).lead_sealed

----------------------------------------------------------------------------
(* Properties of the list's handlers (SpecStatus) *)

\* C17: a status change by the owner replaces the targeted lead by the same
\* lead with another status value, and leaves every other lead and every
\* association row as it was.
C17_StatusChangeTouchesStatusOnly ==
    [][ ( last'.op = "updateStatus" /\ last'.own = "own" /\ last'.outcome = "success" )
        => /\ \E r \in db_leads, t \in Statuses :
                 /\ r.id = last'.id
                 /\ db_leads' = (db_leads \ {r}) \cup { [r EXCEPT !.status = t] }
           /\ db_lead_products' = db_lead_products
           /\ db_lead_services' = db_lead_services ]_vars

\* The owner moved one lead to Closed while another lead, with association
\* rows of its own, kept the status it had.
C17_Witness ==
    /\ last.op = "updateStatus"
    /\ last.own = "own"
    /\ last.outcome = "success"
    /\ LeadWithId(db_leads, last.id).status = "Closed"
    /\ \E r \in db_leads : /\ r.id # last.id
                           /\ r.status = "New"
                           /\ \E a \in db_lead_services : a.lead_id = r.id

\* C18: every association row refers to a stored lead, and right after the
\* owner's delete of a lead succeeded the lead is gone and no association row
\* carries its id.
C18_DeleteCascades ==
    /\ \A a \in db_lead_products \cup db_lead_services :
          \E r \in db_leads : r.id = a.lead_id
    /\ ( last.op = "delete" /\ last.own = "own" /\ last.outcome = "success" )
       => /\ ~ \E r \in db_leads : r.id = last.id
          /\ ~ \E a \in db_lead_products \cup db_lead_services : a.lead_id = last.id

\* The owner deleted the lead that had the product rows: they are gone with
\* it, and the other lead's service rows are still there.
C18_Witness ==
    /\ last.op = "delete"
    /\ last.own = "own"
    /\ last.outcome = "success"
    /\ productInserts(last.id, CreatedProducts(last.id)) # {}
    /\ db_lead_products = {}
    /\ db_lead_services # {}

\* How many displayed leads have this status.
Displayed(st) == Cardinality({ i \in DOMAIN leads : leads[i].status = st })

\* C28: the statistics agree with the displayed list: total is its length,
\* the three counters are the numbers of its leads that are New, In-Progress
\* and Closed, and the counters add up to total.
C28_StatsMatchList ==
    /\ stats.total = Len(leads)
    /\ stats.new = Displayed("New")
    /\ stats.contacted = Displayed("In-Progress")
    /\ stats.closed = Displayed("Closed")
    /\ stats.new + stats.contacted + stats.closed = stats.total

\* A fetch after status changes: the list shows one lead In-Progress and one
\* Closed, and the statistics say so.
C28_Witness ==
    /\ Len(leads) = stats.total
    /\ stats.contacted = 1
    /\ stats.closed = 1
    /\ stats.new = stats.total - 2
    /\ InFlight = 0

----------------------------------------------------------------------------
(* Properties of the status of a lead (SpecEdit) *)

\* The status change of the list's select, asked for lead r with target t.
StatusMovesTo(r, t) ==
    LET answer == StatusCall(db_leads, user, r.id, t, TRUE)
    IN  /\ ~answer.error
        /\ LeadWithId(answer.tbl, r.id) = [r EXCEPT !.status = t]

\* C19: every stored status is one of New, In-Progress and Closed; the owner's
\* status change of a lead succeeds for every target status and leaves the
\* lead in it, whatever its status and its sealed flag; and an update through
\* the edit form succeeds and leaves the lead in the status the form held.
C19_StatusIsFlat ==
    /\ [] ( \A r \in db_leads :
               /\ r.status \in Statuses
               /\ r.user_id = user => \A t \in Statuses : StatusMovesTo(r, t) )
    /\ [][ ( submitting # Null /\ submitting' = Null /\ submitting[1].lead # Null )
           => /\ last'.op = "update"
              /\ last'.outcome = "success"
              /\ LeadWithId(db_leads', last'.id).status = submitting[1].formData.status
              /\ LeadWithId(db_leads', last'.id).lead_sealed
                    = LeadWithId(db_leads, last'.id).lead_sealed ]_vars

\* A sealed lead that the list still shows as Closed was moved back to New by
\* an update through the edit form.
C19_Witness ==
    /\ last.op = "update"
    /\ last.outcome = "success"
    /\ LeadWithId(db_leads, last.id).lead_sealed
    /\ LeadWithId(db_leads, last.id).status = "New"
    /\ \E i \in DOMAIN leads : leads[i].id = last.id /\ leads[i].status = "Closed"
    /\ \E r \in db_leads : r.status = "In-Progress"

----------------------------------------------------------------------------
(* Properties of a running submit (SpecSubmit) *)

\* C23: while a submit runs the form's loading flag is set; every submit
\* ends, reporting a success or an error, with the flag back to false; the
\* store is written only by the step that ends a submit, so no storage call
\* of a submit is issued twice.
C23_SubmitCompletes ==
    /\ [] ( submitting # Null => formLoading )
    /\ ( submitting # Null )
          ~> ( /\ submitting = Null
               /\ ~formLoading
               /\ last.op \in {"create", "update"}
               /\ last.outcome \in {"success", "error", "unavailable"} )
    /\ [][ ( last'.op \in {"create", "update"} \/ dbVars' # dbVars )
           => ( submitting # Null /\ submitting' = Null ) ]_vars

\* An update that the backend did not take has ended: the edit form is still
\* open, it is not loading, and nothing is being submitted.
C23_Witness ==
    /\ last.op = "update"
    /\ last.outcome = "unavailable"
    /\ editingLead # Null
    /\ ~formLoading
    /\ submitting = Null

----------------------------------------------------------------------------
(* Properties of failing fetches (SpecFetch) *)

\* The step takes this answer of a lead fetch off the wire.
Receives(resp) ==
    /\ BagIn(resp, fetchResps)
    /\ fetchResps' = fetchResps (-) SetToBag({resp})

\* C24: the step that receives a failed lead fetch leaves the displayed list
\* and the statistics as they were and ends the dashboard's loading state; a
\* form whose catalog fetch failed has the empty list it started with, a
\* failed catalog fetch changes no list, and the form takes input as usual.
C24_FailedFetchKeepsState ==
    /\ [][ \A resp \in BagToSet(fetchResps) :
              ( resp.error /\ Receives(resp) )
              => ( leads' = leads /\ stats' = stats /\ ~loading' ) ]_vars
    /\ [][ ( ~FormMounted /\ FormMounted' )
           => /\ products' \in { << >>, ActiveRows(ProductsTable) }
              /\ services' \in { << >>, ActiveRows(ServicesTable) }
              /\ ~formLoading' ]_vars
    /\ [] ( /\ CatalogAnswer(ProductsTable, FALSE, products) = products
            /\ CatalogAnswer(ServicesTable, FALSE, services) = services
            /\ ( FormMounted /\ ~formLoading ) => ENABLED onChangeField("address", "x") )

\* The list shows the leads although the last fetch failed, and the new-lead
\* form, whose product fetch failed and whose service fetch did not, has
\* taken input.
C24_Witness ==
    /\ leads # << >>
    /\ ~loading
    /\ \E r \in db_leads : \E i \in DOMAIN leads :
          leads[i].id = r.id /\ leads[i].status # r.status
    /\ InFlight = 0
    /\ showForm
    /\ products = << >>
    /\ services # << >>
    /\ formData.full_name # << >>

----------------------------------------------------------------------------
(* Properties of the selection and the catalog (SpecCatalog) *)

Ids(rows) == { r.id : r \in Range(rows) }

\* C25: in every state of the form the selected product ids are ids of the
\* fetched products, the selected service ids are ids of the fetched
\* services, and every fetched item is active; every association row a create
\* writes names an item of the form's catalog snapshot.
C25_SelectionWithinActiveCatalog ==
    /\ [] ( /\ Range(selectedProducts) \subseteq Ids(products)
            /\ Range(selectedServices) \subseteq Ids(services)
            /\ \A item \in Range(products) \cup Range(services) : item.is_active )
    /\ [][ last'.op = "create"
           => /\ \A a \in db_lead_products' \ db_lead_products : a.product_id \in Ids(products)
              /\ \A a \in db_lead_services' \ db_lead_services : a.service_id \in Ids(services) ]_vars

\* A lead was created with the two active products and the service.
C25_Witness ==
    /\ last.op = "create"
    /\ last.outcome = "success"
    /\ { a.product_id : a \in { b \in db_lead_products : b.lead_id = last.id } } = ProductIds
    /\ \E a \in db_lead_services : a.lead_id = last.id

----------------------------------------------------------------------------
(* Properties of typed amounts (SpecManual) *)

\* C26: every stored lead has a potential_amount of at least 0.
C26_StoredAmountNotNegative ==
    \A r \in db_leads : r.potential_amount >= 0

\* A lead created with the calculator's amount was given a typed amount by an
\* update, and a submit of the negative amount the form now holds was
\* refused by the form.
C26_Witness ==
    /\ editingLead # Null
    /\ formData.potential_amount < 0
    /\ last.op = "update"
    /\ last.outcome = "validation"
    /\ \E r \in db_leads :
          /\ r.id = editingLead[1].id
          /\ r.potential_amount = 500
          /\ \E a \in db_lead_products : a.lead_id = r.id

----------------------------------------------------------------------------
(* Properties of the selection under clicks (SpecToggle) *)

\* What one toggle of id does to a selection: an absent id is appended, a
\* present id is removed, no other id is touched, and no id comes to be
\* listed twice.
ToggleFlips(sel, id, others) ==
    LET once == Toggle(sel, id)
    IN  /\ id \notin Range(sel) => once = Append(sel, id)
        /\ id \in Range(sel) => ( id \notin Range(once) /\ Len(once) = Len(sel) - 1 )
        /\ \A other \in others \ {id} : other \in Range(once) <=> other \in Range(sel)
        /\ NoDuplicates(once)

\* C29: the selections never list an id twice; one toggle adds an absent id
\* once and removes a present one without touching the other ids; and a
\* second toggle of the same id gives back a selection of the same ids.
C29_ToggleKeepsSelectionASet ==
    /\ NoDuplicates(selectedProducts)
    /\ NoDuplicates(selectedServices)
    /\ \A id \in ProductIds :
          /\ ToggleFlips(selectedProducts, id, ProductIds)
          /\ Range(Toggle(Toggle(selectedProducts, id), id)) = Range(selectedProducts)
          /\ Len(Toggle(Toggle(selectedProducts, id), id)) = Len(selectedProducts)
    /\ \A id \in ServiceIds :
          /\ ToggleFlips(selectedServices, id, ServiceIds)
          /\ Range(Toggle(Toggle(selectedServices, id), id)) = Range(selectedServices)
          /\ Len(Toggle(Toggle(selectedServices, id), id)) = Len(selectedServices)

\* C29 (as stated): a second toggle of the same id gives back the selection,
\* the list, that was there before the first.
C29_ToggleTwiceRestoresList ==
    /\ \A id \in ProductIds : Toggle(Toggle(selectedProducts, id), id) = selectedProducts
    /\ \A id \in ServiceIds : Toggle(Toggle(selectedServices, id), id) = selectedServices

\* Both products are selected, the one clicked first listed last: it has been
\* toggled off and on again.
C29_Witness ==
    /\ showForm
    /\ selectedProducts = << "p2", "p1" >>
    /\ selectedServices = << "s1" >>
    /\ formData.address # ""

\* The membership of id in the selection changed in this step and that of no
\* other id did.
FlippedOnly(id, sel, selAfter) ==
    /\ id \in Range(selAfter) <=> id \notin Range(sel)
    /\ Range(selAfter) \ {id} = Range(sel) \ {id}

\* C30 (as stated): every click on a card and every click on a checkbox
\* changes the membership of the clicked item, and of no other item.
C30_ClickFlipsOnce ==
    [][ /\ \A id \in ProductIds :
              ( handleProductToggle(id) \/ clickProductCheckbox(id) )
              => FlippedOnly(id, selectedProducts, selectedProducts')
        /\ \A id \in ServiceIds :
              ( handleServiceToggle(id) \/ clickServiceCheckbox(id) )
              => FlippedOnly(id, selectedServices, selectedServices') ]_vars

\* A checkbox was clicked and nothing is selected.
C30_Witness ==
    /\ showForm
    /\ last.op = "click"
    /\ products # << >>
    /\ services # << >>
    /\ selectedProducts = << >>
    /\ selectedServices = << >>

----------------------------------------------------------------------------
(* Properties of overlapping lead fetches (SpecRace) *)

\* C27 (as stated): whenever no lead fetch is under way, the displayed list
\* is a listing of the user's stored leads as they are now, and the
\* statistics are those of that list.
C27_SettledListIsCurrent ==
    InFlight = 0
    => /\ leads \in FetchAnswers(db_leads, user)
       /\ stats = StatsOf(leads)

\* Every fetch has been answered without error and received, and the list
\* shows as New a lead that is stored as Closed.
C27_Witness ==
    /\ InFlight = 0
    /\ ~loading
    /\ \E r \in db_leads : \E i \in DOMAIN leads :
          leads[i].id = r.id /\ leads[i].status = "New" /\ r.status = "Closed"

----------------------------------------------------------------------------
(* Properties of two sessions editing one lead (SpecTwo) *)

\* The stored lead with this id is the record this form data makes, and no
\* other lead changed in the step.
WroteFullRecord(id, fd) ==
    /\ LeadWithId(db_leads', id) = RowOf(fd, id, user)
    /\ { r \in db_leads' : r.id # id } = { r \in db_leads : r.id # id }

\* C21: an update of either session succeeds whatever the other session or a
\* status change did to the lead since the form was loaded, and leaves the
\* stored lead equal, field for field, to the record of the form that wrote.
C21_LastWriteWins ==
    [][ /\ ( last'.op = "update" /\ submitting' # submitting )
           => /\ last'.outcome = "success"
              /\ WroteFullRecord(last'.id, submitting[1].formData)
        /\ ( last'.op = "update" /\ submitting' = submitting )
           => /\ last'.outcome = "success"
              /\ WroteFullRecord(last'.id, peer[1].formData) ]_vars

\* The other session loaded the lead as New; this session's edit form moved
\* it to In-Progress, which its list still shows; the other session's update,
\* applied last, put back the status it had loaded, with its own address.
C21_Witness ==
    /\ last.op = "update"
    /\ last.outcome = "success"
    /\ peer # Null
    /\ peer[1].sent
    /\ peer[1].lead.id = last.id
    /\ peer[1].lead.status = "New"
    /\ submitting = Null
    /\ InFlight = 0
    /\ \E l \in Range(leads) : l.id = last.id /\ l.status = "In-Progress"
    /\ LeadWithId(db_leads, last.id).status = "New"
    /\ LeadWithId(db_leads, last.id).address = "y"

====
